---- MODULE Spec2Model ----
(***************************************************************************)
(* Model of the mesura metrics registry (src/src/lib.rs): Counter and      *)
(* Gauge handles that own a boxed State, the process-wide Registry behind  *)
(* an RwLock that aliases those states by address, and the Prometheus      *)
(* report encoder.                                                         *)
(*                                                                         *)
(* Strings are sequences of byte codes, so that the BTreeMap's key order   *)
(* (byte-wise lexicographic) and the key built by format! are computed.    *)
(* f64 values are modelled on the integers: every value the modelled       *)
(* sources (usize, i32) can produce is an integer, held as a pair          *)
(* <<hi, lo>> = hi * 2^30 + lo, and rounded to a 53-bit significand the    *)
(* way `as f64` and f64 addition round (nearest, ties to even).            *)
(***************************************************************************)
EXTENDS Integers, Sequences, FiniteSets, TLC

(***************************************************************************)
(* Bounds of the model.                                                    *)
(***************************************************************************)
\* instruments (handles) constructed in one run; the id is the order in which
\* the constructions took the exclusive lock
MaxInst == 2
\* heap addresses the allocator can hand out; a released one is handed out again
MaxAddr == 2
\* reporter threads (test_thread)
MaxReaders == 1
\* reporter threads in the runs of the lock protocol
MaxLockReaders == 2
\* value mutations, completed or in flight, on the handles not yet released
MaxOps == 1

Inst == 1..MaxInst
Addr == 1..MaxAddr
Reader == 1..MaxReaders
LockReader == 1..MaxLockReaders
NullPtr == 0
NoInst == 0

(***************************************************************************)
(* Strings: byte sequences.                                                *)
(***************************************************************************)
ChLBrace == 123
ChRBrace == 125
ChEq == 61
ChQuote == 34
ChComma == 44

EmptyStr == << >>

\* String's Ord: byte-wise lexicographic, a proper prefix sorts first
RECURSIVE StrLess(_, _)
StrLess(a, b) ==
    IF b = << >> THEN FALSE
    ELSE IF a = << >> THEN TRUE
    ELSE IF Head(a) # Head(b) THEN Head(a) < Head(b)
    ELSE StrLess(Tail(a), Tail(b))

\* pairs.join(",")
RECURSIVE Join(_)
Join(pairs) ==
    IF pairs = << >> THEN << >>
    ELSE IF Len(pairs) = 1 THEN pairs[1]
    ELSE pairs[1] \o <<ChComma>> \o Join(Tail(pairs))

\* format!("{key}=\"{label}\"")
FormatPair(key, label) == key \o <<ChEq, ChQuote>> \o label \o <<ChQuote>>

\* keys and labels are the two arrays of length N, positionally paired
format_labels(keys, labels) ==
    IF Len(keys) > 0
    THEN <<ChLBrace>>
         \o Join([n \in 1..Len(keys) |-> FormatPair(keys[n], labels[n])])
         \o <<ChRBrace>>
    ELSE EmptyStr

\* format!("{name}{labels}")
MakeKey(name, keys, labels) == name \o format_labels(keys, labels)

(***************************************************************************)
(* Numbers: integers as <<hi, lo>> with 0 <= lo < Base, and f64 rounding.  *)
(***************************************************************************)
Base == 1073741824
HalfBase == 536870912
\* 2^53 = SigLimit * Base: integers below it are exact in f64
SigLimit == 8388608

Num(hi, lo) == <<hi, lo>>
Zero == Num(0, 0)
One == Num(0, 1)
IsNeg(n) == n[1] < 0

NumAdd(a, b) ==
    LET lo == a[2] + b[2]
    IN  Num(a[1] + b[1] + (lo \div Base), lo % Base)

NumNeg(a) == IF a[2] = 0 THEN Num(0 - a[1], 0) ELSE Num(0 - a[1] - 1, Base - a[2])

NumLess(a, b) == a[1] < b[1] \/ (a[1] = b[1] /\ a[2] < b[2])
NumLeq(a, b) == a = b \/ NumLess(a, b)

ShiftRight(a) == Num(a[1] \div 2, (a[2] \div 2) + (a[1] % 2) * HalfBase)
ShiftLeft(a) == Num(2 * a[1] + (a[2] \div HalfBase), (2 * a[2]) % Base)

RECURSIVE ShiftLeftBy(_, _)
ShiftLeftBy(a, n) == IF n = 0 THEN a ELSE ShiftLeftBy(ShiftLeft(a), n - 1)

\* a >= 0: drop low bits until 53 significant bits remain, then round to
\* nearest, ties to even, and scale back
RECURSIVE RoundMag(_, _, _, _)
RoundMag(a, shift, guard, sticky) ==
    IF a[1] >= SigLimit
    THEN RoundMag(ShiftRight(a), shift + 1, a[2] % 2,
                  IF guard = 1 THEN 1 ELSE sticky)
    ELSE LET up == guard = 1 /\ (sticky = 1 \/ a[2] % 2 = 1)
             m == IF up THEN NumAdd(a, One) ELSE a
         IN  ShiftLeftBy(m, shift)

\* nearest f64 to the integer a
RoundF64(a) == IF IsNeg(a) THEN NumNeg(RoundMag(NumNeg(a), 0, 0, 0))
               ELSE RoundMag(a, 0, 0, 0)

\* `value as f64` for usize and for i32
UsizeAsF64(u) == RoundF64(u)
I32AsF64(i) == RoundF64(i)

\* f64 addition of two integer-valued f64: the exact sum, rounded
F64Add(x, y) == RoundF64(NumAdd(x, y))

\* `self.state.value as usize` of an integer-valued f64: negative saturates to 0
F64AsUsize(x) == IF IsNeg(x) THEN Zero ELSE x

(***************************************************************************)
(* struct State, enum Kind, and the heap the boxed states live on.         *)
(***************************************************************************)
KindCounter == "counter"
KindGauge == "gauge"
\* the mark of a heap cell that holds no State (never allocated, or released)
KindFreed == "freed"

State(name, key, help, value, kind) ==
    [name |-> name, key |-> key, help |-> help, value |-> value, kind |-> kind]

FreedCell == State(EmptyStr, EmptyStr, EmptyStr, Zero, KindFreed)

\* the arguments of a constructor call once format_labels has run
CtorArgs(kind, name, labels) == [kind |-> kind, name |-> name, labels |-> labels]
NoArgs == CtorArgs(KindFreed, EmptyStr, EmptyStr)

\* the name and the two arrays a constructor was called with
Args(name, keys, labels) == [name |-> name, keys |-> keys, labels |-> labels]
NoCall == Args(EmptyStr, << >>, << >>)

\* a value store in flight: `self.state.value = ...` between its read and its write
Store(value, op, src, arg) ==
    [busy |-> TRUE, value |-> value, op |-> op, src |-> src, arg |-> arg]
NoStore == [busy |-> FALSE, value |-> Zero, op |-> "", src |-> "", arg |-> Zero]

VARIABLES
    heap,       \* Addr -> State: the memory of the Box<State> allocations
    metrics,    \* Registry.metrics: key -> address of a State
    lock,       \* the RwLock around the Registry: its writer, its readers, and
                \* whether it is poisoned
    ipc,        \* per handle: where its constructor or destructor stands
    iaddr,      \* per handle: the address of its Box<State>
    cargs,      \* per handle: arguments of a constructor call in progress
    pending,    \* per handle: the value store in flight, if any
    log,        \* per handle: the completed mutations, in order (history)
    ikey,       \* per handle: the key it was constructed with (history)
    calls,      \* per handle: the arguments it was constructed with (history)
    rpc,        \* per reporter: where its rendering stands
    output,     \* per reporter: the report it rendered
    uaf         \* a reporter has dereferenced a released State

vars == <<heap, metrics, lock, ipc, iaddr, cargs, pending, log, ikey, calls, rpc,
          output, uaf>>

(***************************************************************************)
(* Registry: register, unregister, encode_prometheus_report.               *)
(***************************************************************************)
EmptyMap == [k \in {} |-> NullPtr]

\* BTreeMap::insert: insert or overwrite
MapInsert(m, key, ptr) ==
    [k \in DOMAIN m \cup {key} |-> IF k = key THEN ptr ELSE m[k]]

\* BTreeMap::remove
MapRemove(m, key) == [k \in DOMAIN m \ {key} |-> m[k]]

\* variant: an occupied entry is kept (entry().or_insert instead of insert)
registerIfAbsent(m, key, ptr) == IF key \in DOMAIN m THEN m ELSE MapInsert(m, key, ptr)

\* variant: the map is rebuilt with the new entry alone
registerAlone(m, key, ptr) == MapInsert(EmptyMap, key, ptr)

\* Registry::register: the entry for the state's key now holds the state's address
register(m, key, ptr) == MapInsert(m, key, ptr)

\* variant: the identity test is the wrong way round (== for !=)
unregisterInverted(m, key, ptr) ==
    IF key \in DOMAIN m
    THEN IF m[key] = ptr THEN m ELSE MapRemove(m, key)
    ELSE m

\* variant: removal by key alone, without the identity test
unregisterByKey(m, key, ptr) == MapRemove(m, key)

\* variant: the identity test passes and the first entry of the map is removed
\* (pop_first for remove(&state.key))
unregisterFirst(m, key, ptr) ==
    IF key \in DOMAIN m
    THEN IF m[key] # ptr THEN m
         ELSE MapRemove(m, CHOOSE k \in DOMAIN m :
                               \A o \in DOMAIN m \ {k} : StrLess(k, o))
    ELSE m

\* Registry::unregister: remove the entry of the state's key only when it holds
\* the state's own address
unregister(m, key, ptr) ==
    IF key \in DOMAIN m
    THEN IF m[key] # ptr THEN m ELSE MapRemove(m, key)
    ELSE m

\* BTreeMap::values(): the keys in ascending order
RECURSIVE SortedKeys(_)
SortedKeys(keys) ==
    IF keys = {} THEN << >>
    ELSE LET least == CHOOSE k \in keys : \A o \in keys \ {k} : StrLess(k, o)
         IN  <<least>> \o SortedKeys(keys \ {least})

\* the lines of the report; a line of text is kept as its fields
HelpLine(name, help) ==
    [tag |-> "HELP", name |-> name, help |-> help, kind |-> "", key |-> EmptyStr,
     value |-> Zero]
TypeLine(name, kind) ==
    [tag |-> "TYPE", name |-> name, help |-> EmptyStr, kind |-> kind,
     key |-> EmptyStr, value |-> Zero]
SampleLine(key, value) ==
    [tag |-> "SAMPLE", name |-> EmptyStr, help |-> EmptyStr, kind |-> "",
     key |-> key, value |-> value]

\* variant: the registry holds a copy taken at registration, when the value
\* was still Default::default(), instead of the address
DerefCopy(mem, ptr) == [mem[ptr] EXCEPT !.value = Zero]

\* unsafe { &*ptr }: what the reporter finds at the address
Deref(mem, ptr) == mem[ptr]

\* variant: the header is emitted when the name repeats instead of when it changes
EncodeEntrySameName(metric, current) ==
    (IF metric.name = current
     THEN (IF metric.help # EmptyStr
           THEN <<HelpLine(metric.name, metric.help)>> ELSE << >>)
          \o <<TypeLine(metric.name, metric.kind)>>
     ELSE << >>)
    \o <<SampleLine(metric.key, metric.value)>>

\* one pass of the loop body: the lines of one entry, `current` being the name
\* of the entry before it
EncodeEntry(metric, current) ==
    (IF metric.name # current
     THEN (IF metric.help # EmptyStr
           THEN <<HelpLine(metric.name, metric.help)>> ELSE << >>)
          \o <<TypeLine(metric.name, metric.kind)>>
     ELSE << >>)
    \o <<SampleLine(metric.key, metric.value)>>

RECURSIVE EncodeFrom(_, _, _, _, _)
EncodeFrom(m, mem, order, n, current) ==
    IF n > Len(order) THEN << >>
    ELSE LET metric == Deref(mem, m[order[n]])
         IN  EncodeEntry(metric, current)
             \o EncodeFrom(m, mem, order, n + 1, metric.name)

\* Registry::encode_prometheus_report over the memory `mem` the reporter sees
encode_prometheus_report(m, mem) ==
    EncodeFrom(m, mem, SortedKeys(DOMAIN m), 1, EmptyStr)

(***************************************************************************)
(* Inputs of the constructors and of the value mutations.                  *)
(***************************************************************************)
NameM == <<109>>
LabelKeyK == <<107>>
LabelA == <<97>>
LabelB == <<98>>

Call(kind, name, keys, labels) ==
    [kind |-> kind, name |-> name, keys |-> keys, labels |-> labels]

\* the constructor calls of the runs: two label variants of one family, a gauge
\* under the key of a counter, and new("") (no name is validated)
CtorCalls ==
    { Call(KindCounter, NameM, <<LabelKeyK>>, <<LabelA>>),
      Call(KindCounter, NameM, <<LabelKeyK>>, <<LabelB>>),
      Call(KindGauge, NameM, <<LabelKeyK>>, <<LabelA>>),
      Call(KindGauge, EmptyStr, << >>, << >>) }

SrcUsize == "usize"
SrcI32 == "i32"

\* deltas of the registry runs
RegI32 == {NumNeg(One)}

(***************************************************************************)
(* The state after process start: no handle, an empty registry (created on *)
(* first use by get_metrics), an unlocked RwLock.                          *)
(***************************************************************************)
Unlocked == [writer |-> NoInst, readers |-> {}, poisoned |-> FALSE]

\* the start of a process that will construct `handles` and runs the reporter
\* threads `reporters`
Start(handles, reporters) ==
    /\ heap = [a \in Addr |-> FreedCell]
    /\ metrics = EmptyMap
    /\ lock = Unlocked
    /\ ipc = [i \in handles |-> "unborn"]
    /\ iaddr = [i \in handles |-> NullPtr]
    /\ cargs = [i \in handles |-> NoArgs]
    /\ pending = [i \in handles |-> NoStore]
    /\ log = [i \in handles |-> << >>]
    /\ ikey = [i \in handles |-> EmptyStr]
    /\ calls = [i \in handles |-> NoCall]
    /\ rpc = [r \in reporters |-> "idle"]
    /\ output = [r \in reporters |-> << >>]
    /\ uaf = FALSE

Init == Start(Inst, Reader)

FreeAddrs == {a \in Addr : heap[a].kind = KindFreed}

\* variant: write() looks at the writer only and enters beside readers
CanWriteBesideReaders == lock.writer = NoInst

\* RwLock::write succeeds only with no writer and no reader inside
CanWrite == lock.writer = NoInst /\ lock.readers = {}
\* RwLock::read succeeds only with no writer inside
CanRead == lock.writer = NoInst

\* variant: a poisoned lock is used all the same (PoisonError::into_inner)
ValidAlways == TRUE

\* .expect("registry must be valid"): the LockResult is Ok, the lock is not
\* poisoned
Valid == ~lock.poisoned

(***************************************************************************)
(* Counter::with_labels / Gauge::with_labels (new(name) is the call with   *)
(* empty arrays).                                                          *)
(***************************************************************************)
\* lines 21-22 / 62-63: format the labels, take the exclusive lock
CtorLock(i, kind, name, keys, labels) ==
    /\ ipc[i] = "unborn"
    /\ \A j \in DOMAIN ipc : j < i => ipc[j] # "unborn"
    /\ FreeAddrs # {}
    /\ CanWrite
    /\ Valid
    /\ lock' = [lock EXCEPT !.writer = i]
    /\ cargs' = [cargs EXCEPT ![i] = CtorArgs(kind, name, format_labels(keys, labels))]
    /\ ipc' = [ipc EXCEPT ![i] = "ctor_locked"]
    /\ calls' = [calls EXCEPT ![i] = Args(name, keys, labels)]
    /\ UNCHANGED <<heap, metrics, iaddr, pending, log, ikey, rpc, output, uaf>>

\* lines 23-33 / 64-74: build the State, box it, register its address, return
\* the handle; the write guard goes out of scope
CtorRegister(i) ==
    /\ ipc[i] = "ctor_locked"
    /\ \E a \in FreeAddrs :
         LET key == cargs[i].name \o cargs[i].labels
         IN  /\ heap' = [heap EXCEPT ![a] =
                            State(cargs[i].name, key, EmptyStr, Zero, cargs[i].kind)]
             /\ metrics' = register(metrics, key, a)
             /\ iaddr' = [iaddr EXCEPT ![i] = a]
             /\ ikey' = [ikey EXCEPT ![i] = key]
    /\ cargs' = [cargs EXCEPT ![i] = NoArgs]
    /\ lock' = [lock EXCEPT !.writer = NoInst]
    /\ ipc' = [ipc EXCEPT ![i] = "live"]
    /\ UNCHANGED <<calls, pending, log, rpc, output, uaf>>

(***************************************************************************)
(* Value mutations: no lock; the store to state.value is a plain write,    *)
(* in flight between its Begin step and StoreEnd.                          *)
(***************************************************************************)
AsF64(src, x) == IF src = SrcUsize THEN UsizeAsF64(x) ELSE I32AsF64(x)

\* variant: a mutation waits for exclusive access to the registry
CanMutateUnderLock(i, kind) ==
    /\ ipc[i] = "live"
    /\ ~pending[i].busy
    /\ heap[iaddr[i]].kind = kind
    /\ CanWrite

CanMutate(i, kind) ==
    /\ ipc[i] = "live"
    /\ ~pending[i].busy
    /\ heap[iaddr[i]].kind = kind

BeginStore(i, store) ==
    /\ pending' = [pending EXCEPT ![i] = store]
    /\ UNCHANGED <<calls, heap, metrics, lock, ipc, iaddr, cargs, log, ikey, rpc, output,
                   uaf>>

\* Counter::add: self.state.value += value as f64
CounterAdd(i, d) ==
    /\ CanMutate(i, KindCounter)
    /\ BeginStore(i, Store(F64Add(heap[iaddr[i]].value, UsizeAsF64(d)),
                           "add", SrcUsize, d))

\* Counter::inc: self.add(1)
CounterInc(i) == CounterAdd(i, One)

\* GaugeValue<usize|i32>::set: self.state.value = value as f64
GaugeSet(i, src, x) ==
    /\ CanMutate(i, KindGauge)
    /\ BeginStore(i, Store(AsF64(src, x), "set", src, x))

\* variant: add assigns instead of accumulating (= for +=)
GaugeAddAssigns(i, src, x) ==
    /\ CanMutate(i, KindGauge)
    /\ BeginStore(i, Store(AsF64(src, x), "add", src, x))

\* GaugeValue<usize|i32>::add: self.state.value += value as f64
GaugeAdd(i, src, x) ==
    /\ CanMutate(i, KindGauge)
    /\ BeginStore(i, Store(F64Add(heap[iaddr[i]].value, AsF64(src, x)),
                           "add", src, x))

\* the store reaches memory and the call returns
StoreEnd(i) ==
    /\ pending[i].busy
    /\ heap' = [heap EXCEPT ![iaddr[i]].value = pending[i].value]
    /\ log' = [log EXCEPT ![i] = Append(@, [op |-> pending[i].op,
                                            src |-> pending[i].src,
                                            arg |-> pending[i].arg])]
    /\ pending' = [pending EXCEPT ![i] = NoStore]
    /\ UNCHANGED <<calls, metrics, lock, ipc, iaddr, cargs, ikey, rpc, output, uaf>>

\* Counter::value: self.state.value as usize
CounterValue(i) == F64AsUsize(heap[iaddr[i]].value)
\* Gauge::value: self.state.value
GaugeValueOf(i) == heap[iaddr[i]].value

(***************************************************************************)
(* Dropping a handle: drop(Box<State>) runs State::drop, then releases     *)
(* the fields and the allocation.                                          *)
(***************************************************************************)
\* line 165: take the exclusive lock
DropLock(i) ==
    /\ ipc[i] = "live"
    /\ ~pending[i].busy
    /\ CanWrite
    /\ Valid
    /\ lock' = [lock EXCEPT !.writer = i]
    /\ ipc' = [ipc EXCEPT ![i] = "drop_locked"]
    /\ UNCHANGED <<calls, heap, metrics, iaddr, cargs, pending, log, ikey, rpc, output, uaf>>

\* variant: State has no Drop impl, the handle goes away without unregistering
DropWithoutUnregister(i) ==
    /\ ipc[i] = "drop_locked"
    /\ lock' = [lock EXCEPT !.writer = NoInst]
    /\ ipc' = [ipc EXCEPT ![i] = "drop_unlocked"]
    /\ UNCHANGED <<calls, heap, metrics, iaddr, cargs, pending, log, ikey, rpc, output, uaf>>

\* variant: the write guard is leaked (mem::forget), the lock stays held
DropUnregisterKeepsLock(i) ==
    /\ ipc[i] = "drop_locked"
    /\ metrics' = unregister(metrics, heap[iaddr[i]].key, iaddr[i])
    /\ ipc' = [ipc EXCEPT ![i] = "drop_unlocked"]
    /\ UNCHANGED <<calls, heap, lock, iaddr, cargs, pending, log, ikey, rpc, output, uaf>>

\* lines 166-167: registry.unregister(&self); the write guard goes out of scope
\* at the end of State::drop
DropUnregister(i) ==
    /\ ipc[i] = "drop_locked"
    /\ metrics' = unregister(metrics, heap[iaddr[i]].key, iaddr[i])
    /\ lock' = [lock EXCEPT !.writer = NoInst]
    /\ ipc' = [ipc EXCEPT ![i] = "drop_unlocked"]
    /\ UNCHANGED <<calls, heap, iaddr, cargs, pending, log, ikey, rpc, output, uaf>>

\* after State::drop returned: the strings and the Box allocation are released
DropFree(i) ==
    /\ ipc[i] = "drop_unlocked"
    /\ heap' = [heap EXCEPT ![iaddr[i]] = FreedCell]
    /\ iaddr' = [iaddr EXCEPT ![i] = NullPtr]
    /\ log' = [log EXCEPT ![i] = << >>]
    /\ ipc' = [ipc EXCEPT ![i] = "dead"]
    /\ UNCHANGED <<calls, metrics, lock, cargs, pending, ikey, rpc, output, uaf>>

(***************************************************************************)
(* The reporting path (test_thread, lines 269-275).                        *)
(***************************************************************************)
\* addresses whose value field has a store in flight
BusyAddrs == {iaddr[i] : i \in {j \in Inst : pending[j].busy}}
StoreAt(a) == pending[CHOOSE i \in Inst : pending[i].busy /\ iaddr[i] = a]

\* what a reporter reads: a value with a store in flight is read unsynchronised
\* (a data race), and the read returns the old or the new value
View(seen) ==
    [a \in Addr |-> IF a \in seen
                    THEN [heap[a] EXCEPT !.value = StoreAt(a).value]
                    ELSE heap[a]]

Dangling(m) == {k \in DOMAIN m : heap[m[k]].kind = KindFreed}

\* the read guard is taken and registry.encode_prometheus_report() runs
\* under it
RenderReport(r) ==
    /\ lock' = [lock EXCEPT !.readers = @ \cup {r}]
    /\ \E seen \in SUBSET BusyAddrs :
         output' = [output EXCEPT ![r] = encode_prometheus_report(metrics, View(seen))]
    /\ uaf' = (uaf \/ Dangling(metrics) # {})
    /\ rpc' = [rpc EXCEPT ![r] = "rendered"]
    /\ UNCHANGED <<calls, heap, metrics, ipc, iaddr, cargs, pending, log, ikey>>

\* get_metrics().read().expect(..) and the rendering
Render(r) ==
    /\ rpc[r] = "idle"
    /\ CanRead
    /\ Valid
    /\ RenderReport(r)

\* the read guard goes out of scope; the report is handed to the caller
ReadUnlock(r) ==
    /\ rpc[r] = "rendered"
    /\ lock' = [lock EXCEPT !.readers = @ \ {r}]
    /\ output' = [output EXCEPT ![r] = << >>]
    /\ rpc' = [rpc EXCEPT ![r] = "idle"]
    /\ UNCHANGED <<calls, heap, metrics, ipc, iaddr, cargs, pending, log, ikey, uaf>>

(***************************************************************************)
(* The registry protocol: any interleaving of the operations.              *)
(***************************************************************************)
RECURSIVE Mutations(_)
Mutations(handles) ==
    IF handles = {} THEN 0
    ELSE LET i == CHOOSE j \in handles : TRUE
         IN  Len(log[i]) + (IF pending[i].busy THEN 1 ELSE 0)
             + Mutations(handles \ {i})

CanStart == Mutations(Inst) < MaxOps

Next ==
    \/ \E i \in Inst, c \in CtorCalls : CtorLock(i, c.kind, c.name, c.keys, c.labels)
    \/ \E i \in Inst : CtorRegister(i)
    \/ \E i \in Inst : CanStart /\ CounterInc(i)
    \/ \E i \in Inst, x \in RegI32 : CanStart /\ GaugeAdd(i, SrcI32, x)
    \/ \E i \in Inst : StoreEnd(i)
    \/ \E i \in Inst : DropLock(i)
    \/ \E i \in Inst : DropUnregister(i)
    \/ \E i \in Inst : DropFree(i)
    \/ \E r \in Reader : Render(r)
    \/ \E r \in Reader : ReadUnlock(r)

Spec == Init /\ [][Next]_vars

(***************************************************************************)
(* The value arithmetic: one Counter and one Gauge, already constructed,   *)
(* mutated with deltas up to the limits of what f64 holds exactly.         *)
(***************************************************************************)
\* completed value mutations per handle in the arithmetic runs
MaxValueOps == 2

\* 2^53 and 2^53 + 1 (usize is 64 bits wide)
Pow53 == Num(SigLimit, 0)
ValUsize == {Num(0, 2), Pow53, NumAdd(Pow53, One)}
\* -1, i32::MIN, i32::MAX
ValI32 == {NumNeg(One), Num(-2, 0), Num(1, Base - 1)}

CounterHandle == 1
GaugeHandle == 2
KeyMA == MakeKey(NameM, <<LabelKeyK>>, <<LabelA>>)
KeyMB == MakeKey(NameM, <<LabelKeyK>>, <<LabelB>>)

\* the state after Counter::with_labels("m", ["k"], ["a"]) and Gauge::new("")
InitValue ==
    /\ heap = [a \in Addr |->
                 IF a = 1 THEN State(NameM, KeyMA, EmptyStr, Zero, KindCounter)
                 ELSE IF a = 2 THEN State(EmptyStr, EmptyStr, EmptyStr, Zero, KindGauge)
                 ELSE FreedCell]
    /\ metrics = register(register(EmptyMap, KeyMA, 1), EmptyStr, 2)
    /\ lock = Unlocked
    /\ ipc = [i \in Inst |-> IF i \in {CounterHandle, GaugeHandle} THEN "live"
                             ELSE "unborn"]
    /\ iaddr = [i \in Inst |-> IF i \in {CounterHandle, GaugeHandle} THEN i
                               ELSE NullPtr]
    /\ cargs = [i \in Inst |-> NoArgs]
    /\ pending = [i \in Inst |-> NoStore]
    /\ log = [i \in Inst |-> << >>]
    /\ ikey = [i \in Inst |-> IF i = CounterHandle THEN KeyMA ELSE EmptyStr]
    /\ calls = [i \in Inst |-> IF i = CounterHandle
                                THEN Args(NameM, <<LabelKeyK>>, <<LabelA>>)
                                ELSE NoCall]
    /\ rpc = [r \in Reader |-> "idle"]
    /\ output = [r \in Reader |-> << >>]
    /\ uaf = FALSE

CanStartValue(i) == Len(log[i]) < MaxValueOps

NextValue ==
    \/ \E i \in Inst : CanStartValue(i) /\ CounterInc(i)
    \/ \E i \in Inst, d \in ValUsize : CanStartValue(i) /\ CounterAdd(i, d)
    \/ \E i \in Inst, x \in ValUsize : CanStartValue(i) /\ GaugeSet(i, SrcUsize, x)
    \/ \E i \in Inst, x \in ValI32 : CanStartValue(i) /\ GaugeSet(i, SrcI32, x)
    \/ \E i \in Inst, x \in ValUsize : CanStartValue(i) /\ GaugeAdd(i, SrcUsize, x)
    \/ \E i \in Inst, x \in ValI32 : CanStartValue(i) /\ GaugeAdd(i, SrcI32, x)
    \/ \E i \in Inst : StoreEnd(i)

SpecValue == InitValue /\ [][NextValue]_vars

(***************************************************************************)
(* The keys: constructions with names and label values that contain the    *)
(* characters the key format itself uses (no argument is validated or      *)
(* escaped).                                                               *)
(***************************************************************************)
\* the text a","k="b as one label value
LabelAQuoteB == LabelA \o <<ChQuote, ChComma>> \o LabelKeyK \o <<ChEq, ChQuote>> \o LabelB

\* "m", and a name that reads like a key: m{k="a"}
KeyNames == {NameM, KeyMA}

\* the two arrays of a call: none, one pair, two pairs
Labels(keys, labels) == [keys |-> keys, labels |-> labels]
KeyLabelArgs ==
    { Labels(<< >>, << >>),
      Labels(<<LabelKeyK>>, <<LabelA>>),
      Labels(<<LabelKeyK>>, <<LabelAQuoteB>>),
      Labels(<<LabelKeyK, LabelKeyK>>, <<LabelA, LabelB>>) }

NextKey ==
    \/ \E i \in Inst, kind \in {KindCounter, KindGauge}, name \in KeyNames,
          la \in KeyLabelArgs : CtorLock(i, kind, name, la.keys, la.labels)
    \/ \E i \in Inst : CtorRegister(i)

SpecKey == Init /\ [][NextKey]_vars

(***************************************************************************)
(* The lock protocol: threads that wait for the lock.  A constructor, a    *)
(* destructor and a reporter first call write() or read() and block until  *)
(* the lock is handed to them; a poisoned lock makes the call's expect     *)
(* panic.                                                                  *)
(***************************************************************************)
\* handles that hold a heap address or are about to be given one
Claiming ==
    {i \in Inst : ipc[i] \in {"ctor_waiting", "ctor_locked", "live", "drop_waiting",
                              "drop_locked", "drop_unlocked"}}

\* line 21 / 62 and the call of write() on line 22 / 63
CtorCall(i, kind, name, keys, labels) ==
    /\ ipc[i] = "unborn"
    /\ \A j \in DOMAIN ipc : j < i => ipc[j] # "unborn"
    /\ Cardinality(Claiming) < MaxAddr
    /\ cargs' = [cargs EXCEPT ![i] = CtorArgs(kind, name, format_labels(keys, labels))]
    /\ calls' = [calls EXCEPT ![i] = Args(name, keys, labels)]
    /\ ipc' = [ipc EXCEPT ![i] = "ctor_waiting"]
    /\ UNCHANGED <<heap, metrics, lock, iaddr, pending, log, ikey, rpc, output, uaf>>

\* write() returns Ok: the constructor holds the exclusive lock
CtorAcquire(i) ==
    /\ ipc[i] = "ctor_waiting"
    /\ CanWrite
    /\ Valid
    /\ lock' = [lock EXCEPT !.writer = i]
    /\ ipc' = [ipc EXCEPT ![i] = "ctor_locked"]
    /\ UNCHANGED <<calls, heap, metrics, iaddr, cargs, pending, log, ikey, rpc, output,
                   uaf>>

\* write() returns Err: expect panics, no State is built
CtorFail(i) ==
    /\ ipc[i] = "ctor_waiting"
    /\ CanWrite
    /\ ~Valid
    /\ cargs' = [cargs EXCEPT ![i] = NoArgs]
    /\ ipc' = [ipc EXCEPT ![i] = "ctor_panicked"]
    /\ UNCHANGED <<calls, heap, metrics, lock, iaddr, pending, log, ikey, rpc, output,
                   uaf>>

\* the handle goes out of scope: State::drop calls write() (line 165)
DropCall(i) ==
    /\ ipc[i] = "live"
    /\ ~pending[i].busy
    /\ ipc' = [ipc EXCEPT ![i] = "drop_waiting"]
    /\ UNCHANGED <<calls, heap, metrics, lock, iaddr, cargs, pending, log, ikey, rpc,
                   output, uaf>>

\* write() returns Ok: the destructor holds the exclusive lock
DropAcquire(i) ==
    /\ ipc[i] = "drop_waiting"
    /\ CanWrite
    /\ Valid
    /\ lock' = [lock EXCEPT !.writer = i]
    /\ ipc' = [ipc EXCEPT ![i] = "drop_locked"]
    /\ UNCHANGED <<calls, heap, metrics, iaddr, cargs, pending, log, ikey, rpc, output,
                   uaf>>

\* write() returns Err: expect panics inside State::drop, unregister does not
\* run; the unwinding releases the fields and the allocation
DropFail(i) ==
    /\ ipc[i] = "drop_waiting"
    /\ CanWrite
    /\ ~Valid
    /\ heap' = [heap EXCEPT ![iaddr[i]] = FreedCell]
    /\ iaddr' = [iaddr EXCEPT ![i] = NullPtr]
    /\ log' = [log EXCEPT ![i] = << >>]
    /\ ipc' = [ipc EXCEPT ![i] = "drop_panicked"]
    /\ UNCHANGED <<calls, metrics, lock, cargs, pending, ikey, rpc, output, uaf>>

\* test_thread calls read() (lines 271-272)
ReadCall(r) ==
    /\ rpc[r] = "idle"
    /\ rpc' = [rpc EXCEPT ![r] = "read_waiting"]
    /\ UNCHANGED <<calls, heap, metrics, lock, ipc, iaddr, cargs, pending, log, ikey,
                   output, uaf>>

\* read() returns Ok and the report is rendered
ReadAcquire(r) ==
    /\ rpc[r] = "read_waiting"
    /\ CanRead
    /\ Valid
    /\ RenderReport(r)

\* read() returns Err: expect panics, the registry is not read
ReadFail(r) ==
    /\ rpc[r] = "read_waiting"
    /\ CanRead
    /\ ~Valid
    /\ rpc' = [rpc EXCEPT ![r] = "read_panicked"]
    /\ UNCHANGED <<calls, heap, metrics, lock, ipc, iaddr, cargs, pending, log, ikey,
                   output, uaf>>

\* a caller of the public get_metrics() takes the exclusive lock and panics
\* with the guard alive: the guard's drop poisons the lock and releases it
ForeignPanic ==
    /\ CanWrite
    /\ Valid
    /\ lock' = [lock EXCEPT !.poisoned = TRUE]
    /\ UNCHANGED <<calls, heap, metrics, ipc, iaddr, cargs, pending, log, ikey, rpc,
                   output, uaf>>

\* the constructions of the lock runs: a labelled counter and new("")
LockCalls ==
    { Call(KindCounter, NameM, <<LabelKeyK>>, <<LabelA>>),
      Call(KindGauge, EmptyStr, << >>, << >>) }

InitLock == Start(Inst, LockReader)

\* the steps of the library's operations once called
NextOwn ==
    \/ \E i \in Inst : CtorAcquire(i)
    \/ \E i \in Inst : CtorRegister(i)
    \/ \E i \in Inst : DropCall(i)
    \/ \E i \in Inst : DropAcquire(i)
    \/ \E i \in Inst : DropUnregister(i)
    \/ \E i \in Inst : DropFree(i)
    \/ \E r \in LockReader : ReadCall(r)
    \/ \E r \in LockReader : ReadUnlock(r)

NextLock ==
    \/ \E i \in Inst, c \in LockCalls : CtorCall(i, c.kind, c.name, c.keys, c.labels)
    \/ NextOwn
    \/ \E r \in LockReader : ReadAcquire(r)
    \/ ForeignPanic
    \/ \E i \in Inst : CtorFail(i)
    \/ \E i \in Inst : DropFail(i)
    \/ \E r \in LockReader : ReadFail(r)

SpecLock == InitLock /\ [][NextLock]_vars

(***************************************************************************)
(* The lock protocol under fair scheduling.  A thread that can take a      *)
(* step of its own takes it: weak fairness on the steps made inside the    *)
(* lock and on its release.  The lock is handed over fairly: a thread that *)
(* waits for a lock it could be given from some point on is given it       *)
(* (weak fairness on the acquisitions), and no reporter is let in past a   *)
(* waiting writer, as in std's futex RwLock.  Whether a construction, a    *)
(* destruction or a rendering is started at all is up to the program.      *)
(***************************************************************************)
WriterWaiting == \E i \in Inst : ipc[i] \in {"ctor_waiting", "drop_waiting"}

ReadAcquireFair(r) ==
    /\ ~WriterWaiting
    /\ ReadAcquire(r)

\* the constructions of the fair runs (the lock is taken the same way
\* whatever the key is)
FairCalls == {Call(KindCounter, NameM, <<LabelKeyK>>, <<LabelA>>)}

NextFair ==
    \/ \E i \in Inst, c \in FairCalls : CtorCall(i, c.kind, c.name, c.keys, c.labels)
    \/ NextOwn
    \/ \E r \in LockReader : ReadAcquireFair(r)

Fairness ==
    /\ \A i \in Inst :
         /\ WF_vars(CtorAcquire(i))
         /\ WF_vars(CtorRegister(i))
         /\ WF_vars(DropAcquire(i))
         /\ WF_vars(DropUnregister(i))
         /\ WF_vars(DropFree(i))
    /\ \A r \in LockReader :
         /\ WF_vars(ReadAcquireFair(r))
         /\ WF_vars(ReadUnlock(r))

SpecFair == InitLock /\ [][NextFair]_vars /\ Fairness

(***************************************************************************)
(* Address reuse: one more handle than the heap has addresses, so that     *)
(* the last construction is given an address that an earlier State had.    *)
(***************************************************************************)
ReuseInst == 1..(MaxAddr + 1)

InitReuse == Start(ReuseInst, Reader)

NextReuse ==
    \/ \E i \in ReuseInst, c \in CtorCalls :
          CtorLock(i, c.kind, c.name, c.keys, c.labels)
    \/ \E i \in ReuseInst : CtorRegister(i)
    \/ \E i \in ReuseInst : DropLock(i)
    \/ \E i \in ReuseInst : DropUnregister(i)
    \/ \E i \in ReuseInst : DropFree(i)
    \/ \E r \in Reader : Render(r)
    \/ \E r \in Reader : ReadUnlock(r)

SpecReuse == InitReuse /\ [][NextReuse]_vars

(***************************************************************************)
(* Vocabulary of the properties.                                           *)
(***************************************************************************)
Range(seq) == {seq[n] : n \in 1..Len(seq)}
Max(S) == CHOOSE x \in S : \A y \in S : y <= x

\* the handle exists: its constructor has registered it
Constructed(i) == ipc[i] \in {"live", "drop_locked", "drop_unlocked", "dead"}
\* the handle's State is allocated
Allocated(i) == ipc[i] \in {"live", "drop_locked", "drop_unlocked"}
\* the handle's destructor has not run unregister yet
NotDestroyed(i) == ipc[i] \in {"live", "drop_locked"}
\* State::drop has returned for the handle
Destroyed(i) == ipc[i] \in {"drop_unlocked", "dead"}
\* every handle constructed so far under key k, in any state since
SameKey(k) == {i \in Inst : Constructed(i) /\ ikey[i] = k}
\* the registry entry of the handle's key holds the handle's State
Visible(i) ==
    /\ Allocated(i)
    /\ ikey[i] \in DOMAIN metrics
    /\ metrics[ikey[i]] = iaddr[i]
\* no constructor or destructor is between its first and its last step
Quiescent == \A i \in Inst : ipc[i] \in {"unborn", "live", "dead"}

AllKeys == {MakeKey(c.name, c.keys, c.labels) : c \in CtorCalls}
AllNames == {c.name : c \in CtorCalls}

\* reporter r took the read lock and rendered in this step
Renders(r) == rpc[r] = "idle" /\ rpc'[r] = "rendered"
\* handle i ran unregister in this step
Unregisters(i) == ipc[i] = "drop_locked" /\ ipc'[i] = "drop_unlocked"
\* handle i was registered in this step
Registers(i) == ipc[i] = "ctor_locked" /\ ipc'[i] = "live"

\* the exact result of the completed mutations: add adds, set replaces
RECURSIVE Replay(_, _)
Replay(acc, ops) ==
    IF ops = << >> THEN acc
    ELSE Replay(IF Head(ops).op = "set" THEN Head(ops).arg
                ELSE NumAdd(acc, Head(ops).arg), Tail(ops))

TypeOK ==
    /\ DOMAIN metrics \subseteq AllKeys
    /\ \A k \in DOMAIN metrics : metrics[k] \in Addr
    /\ lock.writer \in Inst \cup {NoInst}
    /\ lock.readers \subseteq Reader
    /\ \A i \in Inst : iaddr[i] \in Addr \cup {NullPtr}
    /\ \A i \in Inst : Allocated(i) <=> iaddr[i] # NullPtr
    /\ \A i \in Inst : Allocated(i) => heap[iaddr[i]].key = ikey[i]
    /\ \A i, j \in Inst : Allocated(i) /\ Allocated(j) /\ i # j => iaddr[i] # iaddr[j]
    /\ \A a \in Addr : heap[a].help = EmptyStr

(***************************************************************************)
(* C1: under every interleaving of constructions, mutations, destructions  *)
(* and renderings, each registry entry holds the address of an allocated   *)
(* State with the entry's key; a State whose destructor has returned       *)
(* (memory about to be released, or released) is referenced by no entry;   *)
(* and no reporter has dereferenced a released State.                      *)
(***************************************************************************)
C1_EntriesReferenceLiveStates ==
    /\ \A k \in DOMAIN metrics :
         /\ heap[metrics[k]].kind # KindFreed
         /\ heap[metrics[k]].key = k
         /\ \E i \in Inst : NotDestroyed(i) /\ iaddr[i] = metrics[k]
    /\ \A i \in Inst : ipc[i] = "drop_unlocked" =>
         \A k \in DOMAIN metrics : metrics[k] # iaddr[i]
    /\ ~uaf

\* a reporter holds a non-empty report while a handle is between its
\* unregister and the release of its memory
C1_Witness ==
    /\ \E r \in Reader : rpc[r] = "rendered" /\ output[r] # << >>
    /\ \E i \in Inst : ipc[i] = "drop_unlocked"

(***************************************************************************)
(* C2: handles a and b share a key, a constructed before b, b the last     *)
(* one constructed under that key, b live.  The unregister of a's          *)
(* destructor leaves the entry of the key in place, holding b's State; and *)
(* a report rendered once a is destroyed has the sample line of that key   *)
(* with b's value at that moment (with the old or the new value when a     *)
(* store to b's value is in flight).                                       *)
(***************************************************************************)
NewerOf(a, b) ==
    /\ a < b
    /\ Constructed(a)
    /\ ipc[b] = "live"
    /\ ikey[a] = ikey[b]
    /\ b = Max(SameKey(ikey[b]))

C2_DropStep ==
    \A a, b \in Inst :
        NewerOf(a, b) /\ Unregisters(a) =>
            /\ ikey[b] \in DOMAIN metrics'
            /\ metrics'[ikey[b]] = iaddr[b]

C2_ReportStep ==
    \A r \in Reader, a, b \in Inst :
        NewerOf(a, b) /\ Destroyed(a) /\ Renders(r) =>
            \/ SampleLine(ikey[b], heap[iaddr[b]].value) \in Range(output'[r])
            \/ /\ pending[b].busy
               /\ SampleLine(ikey[b], pending[b].value) \in Range(output'[r])

C2_OlderDropKeepsNewer == [][C2_DropStep /\ C2_ReportStep]_vars

\* handle 1 is destroyed, handle 2 has the same key, is live and has been
\* incremented, and a reporter holds a report showing handle 2's value
C2_Witness ==
    /\ ipc[1] = "dead"
    /\ ipc[2] = "live"
    /\ ikey[1] = ikey[2]
    /\ heap[iaddr[2]].value = One
    /\ \E r \in Reader :
         /\ rpc[r] = "rendered"
         /\ SampleLine(ikey[2], One) \in Range(output[r])

(***************************************************************************)
(* C3: when none of the handles constructed so far under a key has been    *)
(* destroyed, the registry has the entry of that key and it holds the      *)
(* State of the handle that registered last (the map has one entry per     *)
(* key by construction).                                                   *)
(***************************************************************************)
C3_LastRegistrationWins ==
    \A i \in Inst :
        (Constructed(i) /\ \A j \in SameKey(ikey[i]) : NotDestroyed(j)) =>
            /\ ikey[i] \in DOMAIN metrics
            /\ metrics[ikey[i]] = iaddr[Max(SameKey(ikey[i]))]

\* a Counter and then a Gauge were constructed under one key, both live: the
\* entry holds the Gauge
C3_Witness ==
    /\ ipc[1] = "live" /\ ipc[2] = "live"
    /\ ikey[1] = ikey[2]
    /\ heap[iaddr[1]].kind = KindCounter
    /\ heap[iaddr[2]].kind = KindGauge
    /\ metrics[ikey[1]] = iaddr[2]

(***************************************************************************)
(* C4: when the entry of key k holds the State of handle i, the unregister *)
(* of i's destructor removes the entry; an absent key becomes present only *)
(* by the registration of a handle constructed with that key; and a report *)
(* has sample lines only for keys present in the registry.  So no report   *)
(* rendered after the destruction has a sample line for k until a handle   *)
(* with key k is constructed.                                              *)
(***************************************************************************)
C4_DropStep ==
    \A i \in Inst :
        Visible(i) /\ Unregisters(i) => ikey[i] \notin DOMAIN metrics'

C4_AbsentUntilConstructed ==
    \A k \in AllKeys :
        k \notin DOMAIN metrics /\ k \in DOMAIN metrics' =>
            \E j \in Inst : Registers(j) /\ ikey'[j] = k

C4_ReportStep ==
    \A r \in Reader :
        Renders(r) =>
            \A n \in 1..Len(output'[r]) :
                output'[r][n].tag = "SAMPLE" => output'[r][n].key \in DOMAIN metrics

C4_SoleDropRemovesKey ==
    [][C4_DropStep /\ C4_AbsentUntilConstructed /\ C4_ReportStep]_vars

\* handle 1 was the only one under its key and is destroyed; a reporter holds
\* a report with the line of another handle and none for handle 1's key
C4_Witness ==
    /\ ipc[1] = "dead"
    /\ SameKey(ikey[1]) = {1}
    /\ ikey[1] \notin DOMAIN metrics
    /\ \E r \in Reader :
         /\ rpc[r] = "rendered"
         /\ output[r] # << >>
         /\ \A n \in 1..Len(output[r]) : output[r][n].key # ikey[1]

(***************************************************************************)
(* C5 as stated: a report rendered while no construction or destruction is *)
(* in progress has, for every family name with a live handle, a TYPE line  *)
(* of that name directly followed by a sample line of a live handle of     *)
(* that name.  (A reporter that holds its report still holds the read      *)
(* lock, so the registry is as it was when the report was rendered.)       *)
(***************************************************************************)
NameOf(i) == heap[iaddr[i]].name

\* report `out` has a TYPE line for `name`, directly followed by the sample
\* line of one of the handles in `group`
HasStanza(out, name, group) ==
    \E n \in 1..(Len(out) - 1) :
        /\ out[n].tag = "TYPE"
        /\ out[n].name = name
        /\ out[n + 1].tag = "SAMPLE"
        /\ \E i \in group : out[n + 1].key = ikey[i]

HasSample(out, key) ==
    \E n \in 1..Len(out) : out[n].tag = "SAMPLE" /\ out[n].key = key

LiveOfName(name) == {i \in Inst : ipc[i] = "live" /\ NameOf(i) = name}
VisibleOfName(name) == {i \in Inst : Visible(i) /\ NameOf(i) = name}

C5_EveryLiveFamilyHasStanza ==
    \A r \in Reader :
        rpc[r] = "rendered" /\ Quiescent =>
            \A i \in Inst :
                ipc[i] = "live" =>
                    HasStanza(output[r], NameOf(i), LiveOfName(NameOf(i)))

(***************************************************************************)
(* C5 amended: a report rendered while no construction or destruction is   *)
(* in progress has a sample line for every handle whose State the registry *)
(* references, and for every family name other than the empty string that  *)
(* has such a handle, a TYPE line of that name directly followed by the    *)
(* sample line of such a handle.  A live handle whose entry was            *)
(* overwritten by a later same-key registration has no line, also after    *)
(* that later handle is destroyed; the family with the empty name gets     *)
(* sample lines without a TYPE line when its key sorts first.              *)
(***************************************************************************)
C5_EveryVisibleFamilyHasStanza ==
    \A r \in Reader :
        rpc[r] = "rendered" /\ Quiescent =>
            \A i \in Inst :
                Visible(i) =>
                    /\ HasSample(output[r], ikey[i])
                    /\ NameOf(i) # EmptyStr =>
                         HasStanza(output[r], NameOf(i), VisibleOfName(NameOf(i)))

\* two live handles of family "m" under one key, the older one superseded,
\* rendered in a quiescent state: a TYPE line and the newer handle's sample
C5_Witness ==
    /\ Quiescent
    /\ \E r \in Reader : rpc[r] = "rendered" /\ Len(output[r]) = 2
    /\ Cardinality(VisibleOfName(NameM)) = 1
    /\ Cardinality(LiveOfName(NameM)) = 2

(***************************************************************************)
(* C6: the registry aliases the handle's State.  When a report is          *)
(* rendered, every handle whose State the registry references and whose    *)
(* value has no store in flight has its sample line in the report, with    *)
(* the value that the mutations completed on the handle add up to; no      *)
(* registration happens between the mutations and the report.              *)
(***************************************************************************)
C6_ReportStep ==
    \A r \in Reader, i \in Inst :
        Renders(r) /\ Visible(i) /\ ~pending[i].busy =>
            /\ heap[iaddr[i]].value = Replay(Zero, log[i])
            /\ SampleLine(ikey[i], Replay(Zero, log[i])) \in Range(output'[r])

C6_ReportShowsHandleValue == [][C6_ReportStep]_vars

\* two label variants of one family, one of them incremented after its
\* registration, rendered as 1 and 0
C6_Witness ==
    \E r \in Reader :
        /\ rpc[r] = "rendered"
        /\ SampleLine(KeyMA, One) \in Range(output[r])
        /\ SampleLine(KeyMB, Zero) \in Range(output[r])
        /\ \E i \in Inst : ikey[i] = KeyMA /\ Len(log[i]) = 1

(***************************************************************************)
(* C9: whenever every handle is either not constructed yet or destroyed    *)
(* (its destructor's unregister has run), the registry map is empty, a     *)
(* report of it is the empty string, and so is every report a reporter     *)
(* holds.                                                                  *)
(***************************************************************************)
NoneLive == \A i \in Inst : ipc[i] = "unborn" \/ Destroyed(i)

C9_NoInstrumentEmptyReport ==
    NoneLive =>
        /\ metrics = EmptyMap
        /\ encode_prometheus_report(metrics, heap) = << >>
        /\ \A r \in Reader : rpc[r] = "rendered" => output[r] = << >>

\* every handle of the run has been constructed and destroyed, and a reporter
\* has rendered since
C9_Witness ==
    /\ \A i \in Inst : ipc[i] = "dead"
    /\ \E r \in Reader : rpc[r] = "rendered"

(***************************************************************************)
(* C7 as stated: for a Counter constructed with value 0, value() is the    *)
(* sum of the deltas of the add calls completed on it (inc is add(1)).     *)
(***************************************************************************)
IsLive(i, kind) == ipc[i] = "live" /\ heap[iaddr[i]].kind = kind

C7_CounterValueIsSum ==
    \A i \in Inst :
        IsLive(i, KindCounter) => CounterValue(i) = Replay(Zero, log[i])

(***************************************************************************)
(* C7, second part: the value of a Counter never decreases from one step   *)
(* to the next.                                                            *)
(***************************************************************************)
C7_NeverDecreases ==
    [][\A i \in Inst :
         IsLive(i, KindCounter) /\ ipc'[i] = "live" =>
             NumLeq(heap[iaddr[i]].value, heap'[iaddr[i]].value)]_vars

(***************************************************************************)
(* C8 as stated: after set(x) a Gauge's value() is x, whatever the value   *)
(* was before; after set(y) and then add(x), value() is y + x; for x and y *)
(* of type usize or i32.                                                   *)
(***************************************************************************)
LastOp(i) == log[i][Len(log[i])]
PrevOp(i) == log[i][Len(log[i]) - 1]
EndsWithSet(i) == Len(log[i]) >= 1 /\ LastOp(i).op = "set"
EndsWithSetAdd(i) ==
    Len(log[i]) >= 2 /\ PrevOp(i).op = "set" /\ LastOp(i).op = "add"

C8_SetAndAddAreExact ==
    \A i \in Inst :
        IsLive(i, KindGauge) =>
            /\ EndsWithSet(i) => GaugeValueOf(i) = LastOp(i).arg
            /\ EndsWithSetAdd(i) =>
                 GaugeValueOf(i) = NumAdd(PrevOp(i).arg, LastOp(i).arg)

(***************************************************************************)
(* C8 amended: after set(x), value() is x converted to f64, whatever the   *)
(* value was before: x itself when |x| <= 2^53 (every i32, and every usize *)
(* up to 2^53), the nearest f64 otherwise.  After set(y) and add(x),       *)
(* value() is the f64 sum of the converted y and x: y + x itself when      *)
(* |y|, |x| and |y + x| are at most 2^53, negative x included.             *)
(***************************************************************************)
Exact(x) == NumLeq(x, Pow53) /\ NumLeq(NumNeg(Pow53), x)

C8_SetAndAddAreRounded ==
    \A i \in Inst :
        IsLive(i, KindGauge) =>
            /\ EndsWithSet(i) =>
                 /\ GaugeValueOf(i) = RoundF64(LastOp(i).arg)
                 /\ Exact(LastOp(i).arg) => GaugeValueOf(i) = LastOp(i).arg
            /\ EndsWithSetAdd(i) =>
                 LET y == PrevOp(i).arg
                     x == LastOp(i).arg
                 IN  /\ GaugeValueOf(i) = RoundF64(NumAdd(RoundF64(y), RoundF64(x)))
                     /\ Exact(y) /\ Exact(x) /\ Exact(NumAdd(y, x)) =>
                          GaugeValueOf(i) = NumAdd(y, x)

\* set(2usize) and then add(-1i32) have completed on the Gauge: its value is 1
C8_Witness ==
    /\ IsLive(GaugeHandle, KindGauge)
    /\ log[GaugeHandle] =
         << [op |-> "set", src |-> SrcUsize, arg |-> Num(0, 2)],
            [op |-> "add", src |-> SrcI32, arg |-> NumNeg(One)] >>
    /\ GaugeValueOf(GaugeHandle) = One

(***************************************************************************)
(* C13 as stated: in every report a reporter holds, the sample lines are   *)
(* in ascending key order, and the first sample line of every maximal run  *)
(* of entries with one family name, the run at the very start included, is *)
(* directly preceded by a TYPE line of that name; for every name the       *)
(* constructors accept, the empty string among them.  (The registry cannot *)
(* change while the reporter holds the read lock, so the name of a sample  *)
(* line's entry is read from the registry.)                                *)
(***************************************************************************)
SampleIndexes(out) == {n \in 1..Len(out) : out[n].tag = "SAMPLE"}

\* the family name of the entry a sample line was rendered from
EntryName(line) == heap[metrics[line.key]].name

\* sample line n starts a run: no sample line before it, or the closest one
\* before it is of another family name
StartsRun(out, n) ==
    LET before == {m \in SampleIndexes(out) : m < n}
    IN  before = {} \/ EntryName(out[Max(before)]) # EntryName(out[n])

C13_EveryRunHasTypeLine ==
    \A r \in Reader :
        rpc[r] = "rendered" =>
            LET out == output[r]
            IN  /\ \A m, n \in SampleIndexes(out) :
                     m < n => StrLess(out[m].key, out[n].key)
                /\ \A n \in SampleIndexes(out) :
                     StartsRun(out, n) =>
                         /\ n > 1
                         /\ out[n - 1].tag = "TYPE"
                         /\ out[n - 1].name = EntryName(out[n])

(***************************************************************************)
(* C13 for the names other than the empty string: the order of the sample  *)
(* lines, and the TYPE line in front of every run of a non-empty name.     *)
(***************************************************************************)
C13_EveryNamedRunHasTypeLine ==
    \A r \in Reader :
        rpc[r] = "rendered" =>
            LET out == output[r]
            IN  /\ \A m, n \in SampleIndexes(out) :
                     m < n => StrLess(out[m].key, out[n].key)
                /\ \A n \in SampleIndexes(out) :
                     StartsRun(out, n) /\ EntryName(out[n]) # EmptyStr =>
                         /\ n > 1
                         /\ out[n - 1].tag = "TYPE"
                         /\ out[n - 1].name = EntryName(out[n])

(***************************************************************************)
(* C14: the register step of a constructor and the unregister step of a    *)
(* destructor leave the entry of every key other than the state's key as   *)
(* it was (present with the same address, or absent); the steps of the     *)
(* value mutations (the start and the end of a store) and of the reporters *)
(* leave the whole map as it was, and so does every step that is neither a *)
(* register nor an unregister.                                             *)
(***************************************************************************)
Entry(m, k) == IF k \in DOMAIN m THEN m[k] ELSE NullPtr

SameElsewhere(key) ==
    \A k \in (DOMAIN metrics \cup DOMAIN metrics') \ {key} :
        Entry(metrics', k) = Entry(metrics, k)

MutationStep == \E i \in Inst : pending'[i] # pending[i]
ReporterStep == \E r \in Reader : rpc'[r] # rpc[r]

C14_FrameStep ==
    /\ \A i \in Inst : Registers(i) => SameElsewhere(ikey'[i])
    /\ \A i \in Inst : Unregisters(i) => SameElsewhere(ikey[i])
    /\ MutationStep \/ ReporterStep => metrics' = metrics
    /\ (\A i \in Inst : ~Registers(i) /\ ~Unregisters(i)) => metrics' = metrics

C14_OnlyOwnEntryChanges == [][C14_FrameStep]_vars

\* a handle was registered and destroyed while the entry of another key stayed
\* in place; the handle of that entry was mutated and a reporter has rendered
C14_Witness ==
    \E i, j \in Inst :
        /\ ipc[i] = "dead"
        /\ ipc[j] = "live"
        /\ ikey[i] # ikey[j]
        /\ Visible(j)
        /\ Len(log[j]) = 1
        /\ \E r \in Reader : rpc[r] = "rendered"

(***************************************************************************)
(* C15: in every registry state the runs reach, for every key and every    *)
(* address, unregister applied twice gives the map that unregister applied *)
(* once gives.  The unregister step of a destructor leaves a map that a    *)
(* second unregister of the same state would not change and that has no    *)
(* entry with the state's address; a handle is deregistered by that step   *)
(* and by no other, and stays deregistered.                                *)
(***************************************************************************)
UnregisterIsIdempotent(m) ==
    \A k \in AllKeys, a \in Addr :
        unregister(unregister(m, k, a), k, a) = unregister(m, k, a)

\* a step that leaves the map as it was leaves a map already covered, and a
\* step that leaves a handle's position as it was neither destroys nor
\* revives the handle
C15_Step ==
    /\ metrics' # metrics => UnregisterIsIdempotent(metrics')
    /\ \A i \in Inst :
         Unregisters(i) =>
             /\ unregister(metrics', ikey[i], iaddr[i]) = metrics'
             /\ \A k \in DOMAIN metrics' : metrics'[k] # iaddr[i]
    /\ \A i \in Inst :
         ipc'[i] # ipc[i] =>
             /\ NotDestroyed(i) /\ Destroyed(i)' => Unregisters(i)
             /\ Destroyed(i) => Destroyed(i)' /\ ~Unregisters(i)

C15_UnregisterOnceAndIdempotent ==
    UnregisterIsIdempotent(metrics) /\ [][C15_Step]_vars

\* a destructor has run unregister and removed its entry, while the entry of
\* another key stays in the map
C15_Witness ==
    \E i \in Inst :
        /\ ipc[i] = "drop_unlocked"
        /\ ikey[i] \notin DOMAIN metrics
        /\ metrics # EmptyMap

(***************************************************************************)
(* C16: a value mutation takes no lock.  In every reachable state, every   *)
(* live handle with no store in flight can start a mutation (inc on a      *)
(* Counter, set and add on a Gauge), whoever holds the registry lock.  The *)
(* reachable interleaving of the claim is the witness.                     *)
(***************************************************************************)
MutationEnabled(i) ==
    IF heap[iaddr[i]].kind = KindCounter
    THEN ENABLED CounterInc(i)
    ELSE /\ ENABLED GaugeSet(i, SrcUsize, One)
         /\ ENABLED GaugeAdd(i, SrcUsize, One)

C16_MutationIgnoresLock ==
    [](\A i \in Inst : ipc[i] = "live" /\ ~pending[i].busy => MutationEnabled(i))

\* a reporter holds shared access and a report that shows 0 for a handle whose
\* store completed since: the handle's value is 1
C16_Witness ==
    \E r \in Reader, i \in Inst :
        /\ rpc[r] = "rendered"
        /\ r \in lock.readers
        /\ Visible(i)
        /\ SampleLine(ikey[i], Zero) \in Range(output[r])
        /\ heap[iaddr[i]].value = One
        /\ Len(log[i]) = 1

(***************************************************************************)
(* C20: a handle whose State is still allocated and after which another    *)
(* handle was registered under the same key (handle ids are the order of   *)
(* the registrations) is referenced by no registry entry, in every         *)
(* reachable state: while the later handle lives, and after the later      *)
(* handle is destroyed, when the key is absent.                            *)
(***************************************************************************)
Superseded(i) == Allocated(i) /\ \E j \in SameKey(ikey[i]) : j > i

C20_SupersededNeverReferenced ==
    \A i \in Inst :
        Superseded(i) =>
            /\ ~Visible(i)
            /\ \A k \in DOMAIN metrics : metrics[k] # iaddr[i]

\* handle 2 overwrote the entry of handle 1 and is destroyed: the key is absent
\* while handle 1 is live with a store to its value in flight, and a reporter
\* holds an empty report
C20_Witness ==
    /\ ipc[1] = "live"
    /\ ipc[2] = "dead"
    /\ ikey[1] = ikey[2]
    /\ ikey[1] \notin DOMAIN metrics
    /\ pending[1].busy
    /\ \E r \in Reader : rpc[r] = "rendered" /\ output[r] = << >>

(***************************************************************************)
(* C17 as stated: two constructed instruments have the same key if and     *)
(* only if they were constructed with the same name and the same ordered   *)
(* list of label key/value pairs, whatever the strings are.                *)
(***************************************************************************)
C17_KeyUniquePerLabels ==
    \A i, j \in Inst :
        Constructed(i) /\ Constructed(j) =>
            (ikey[i] = ikey[j] <=> calls[i] = calls[j])

(***************************************************************************)
(* C17 for strings without the characters of the key format: when neither  *)
(* name has a brace and no label key or value has a quote, equal keys come *)
(* from equal arguments.                                                   *)
(***************************************************************************)
Plain(str) == \A n \in 1..Len(str) : str[n] \notin {ChLBrace, ChQuote}

PlainCall(c) ==
    /\ Plain(c.name)
    /\ \A n \in 1..Len(c.keys) : Plain(c.keys[n]) /\ Plain(c.labels[n])

C17_KeyUniqueForPlainStrings ==
    \A i, j \in Inst :
        Constructed(i) /\ Constructed(j) /\ PlainCall(calls[i]) /\ PlainCall(calls[j]) =>
            (ikey[i] = ikey[j] <=> calls[i] = calls[j])

(***************************************************************************)
(* C11: in every reachable state of the lock protocol, at most one thread  *)
(* is inside register or unregister (a constructor or a destructor between *)
(* taking and releasing the exclusive lock), and while one is, no reporter *)
(* is inside the rendering and no other constructor or destructor is       *)
(* inside; the lock's writer and readers are exactly the threads inside.   *)
(* Two reporters inside at the same time is the witness.                   *)
(***************************************************************************)
WritersInside == {i \in Inst : ipc[i] \in {"ctor_locked", "drop_locked"}}
ReadersInside == {r \in DOMAIN rpc : rpc[r] = "rendered"}

C11_WriterExcludesAll ==
    /\ Cardinality(WritersInside) <= 1
    /\ WritersInside # {} => ReadersInside = {}
    /\ WritersInside = (IF lock.writer = NoInst THEN {} ELSE {lock.writer})
    /\ ReadersInside = lock.readers

\* two reporters are inside the rendering at the same time, holding a
\* non-empty report, while a destructor waits for the exclusive lock
C11_Witness ==
    /\ Cardinality(ReadersInside) >= 2
    /\ \A r \in ReadersInside : output[r] # << >>
    /\ \E i \in Inst : ipc[i] = "drop_waiting"

(***************************************************************************)
(* C18: once the lock is poisoned it stays poisoned, and every step from   *)
(* then on leaves the registry map as it is and reads none of it (no       *)
(* report is rendered, no State is dereferenced); a constructor, a         *)
(* destructor or a reporter that was waiting for the lock and moves ends   *)
(* in the panic of its expect, and no thread is ever inside the lock       *)
(* again.                                                                  *)
(***************************************************************************)
C18_PoisonedStep ==
    lock.poisoned =>
        /\ lock'.poisoned
        /\ metrics' = metrics
        /\ output' = output
        /\ uaf' = uaf
        /\ lock'.writer = NoInst /\ lock'.readers = {}
        /\ \A i \in Inst :
             /\ ipc[i] = "ctor_waiting" /\ ipc'[i] # ipc[i] => ipc'[i] = "ctor_panicked"
             /\ ipc[i] = "drop_waiting" /\ ipc'[i] # ipc[i] => ipc'[i] = "drop_panicked"
             /\ ipc'[i] \notin {"ctor_locked", "drop_locked"}
        /\ \A r \in DOMAIN rpc :
             /\ rpc[r] = "read_waiting" /\ rpc'[r] # rpc[r] => rpc'[r] = "read_panicked"
             /\ rpc'[r] # "rendered"

C18_PoisonIsFatal == [][C18_PoisonedStep]_vars

\* the lock was poisoned with an instrument registered; since then a
\* construction, a destruction and a rendering have each panicked, and the map
\* still has its entry
C18_Witness ==
    /\ lock.poisoned
    /\ metrics # EmptyMap
    /\ \E i \in Inst : ipc[i] = "ctor_panicked"
    /\ \E i \in Inst : ipc[i] = "drop_panicked"
    /\ \E r \in DOMAIN rpc : rpc[r] = "read_panicked"

(***************************************************************************)
(* C12: under fair scheduling and fair hand-over of the lock, every        *)
(* construction that has called write() gets the lock, registers and       *)
(* returns the live handle; every destruction that has called write()      *)
(* gets the lock, unregisters, releases it and releases the State; every   *)
(* reporter that has called read() renders, and every reporter that        *)
(* rendered releases the lock.                                             *)
(***************************************************************************)
C12_EveryOperationCompletes ==
    /\ \A i \in Inst : (ipc[i] = "ctor_waiting") ~> (ipc[i] = "live")
    /\ \A i \in Inst : (ipc[i] = "drop_waiting") ~> (ipc[i] = "dead")
    /\ \A r \in LockReader : (rpc[r] = "read_waiting") ~> (rpc[r] = "rendered")
    /\ \A r \in LockReader : (rpc[r] = "rendered") ~> (rpc[r] = "idle")

\* a constructor holds the lock while a destructor and a reporter wait for it
C12_Witness ==
    /\ \E i \in Inst : ipc[i] = "ctor_locked"
    /\ \E i \in Inst : ipc[i] = "drop_waiting"
    /\ \E r \in LockReader : rpc[r] = "read_waiting"

(***************************************************************************)
(* C19: with one more handle than addresses, so that addresses of released *)
(* States are handed out again.  In every state, the address in an entry   *)
(* is the address of exactly one allocated State, that State has the       *)
(* entry's key, and its handle is the last one registered under the key    *)
(* (ids are the order of registration): an equal address means the same    *)
(* instrument.  The unregister step of a destructor changes the map only   *)
(* by removing the entry that references the destructor's own State, and   *)
(* every entry that references another State stays, with its address.      *)
(***************************************************************************)
Handles == DOMAIN ipc

\* the handles whose allocated State is at address a
OwnersOf(a) == {i \in Handles : Allocated(i) /\ iaddr[i] = a}

EntryIsOfLastRegistrant(k) ==
    /\ Cardinality(OwnersOf(metrics[k])) = 1
    /\ \A i \in OwnersOf(metrics[k]) :
         /\ ikey[i] = k
         /\ \A j \in Handles : Constructed(j) /\ ikey[j] = k => j <= i

C19_UnregisterStep ==
    \A i \in Handles :
        Unregisters(i) =>
            /\ metrics' # metrics =>
                 /\ Visible(i)
                 /\ metrics' = MapRemove(metrics, ikey[i])
            /\ \A k \in DOMAIN metrics :
                 metrics[k] # iaddr[i] =>
                     k \in DOMAIN metrics' /\ metrics'[k] = metrics[k]
            /\ \A j \in Handles \ {i} : Visible(j) => Visible(j)'

C19_Step ==
    /\ \A k \in DOMAIN metrics : EntryIsOfLastRegistrant(k)
    /\ \A k \in DOMAIN metrics' : EntryIsOfLastRegistrant(k)'
    /\ C19_UnregisterStep

C19_IdentityByAddressIsSound == [][C19_Step]_vars

\* every handle has been constructed, so the last one was given the address of
\* a released State; it is registered under the key of a destroyed handle, and
\* a handle it superseded has run its unregister and left the entry in place
C19_Witness ==
    LET last == MaxAddr + 1
    IN  /\ \A i \in Handles : Constructed(i)
        /\ Visible(last)
        /\ \E i \in Handles : ipc[i] = "dead" /\ ikey[i] = ikey[last]
        /\ \E i \in Handles : ipc[i] = "drop_unlocked" /\ ikey[i] = ikey[last]

====
